---- MODULE Spec2Model ----
(***************************************************************************)
(* Model of the operation-to-command compiler of video-ffmpeg-poc: the     *)
(* ?op=... parser, the filter chain compiler with its watermark stage, the *)
(* codec/container selector and process_video, in both backend variants     *)
(* (CPU-Powered-POC and Integrated-GPU-Powered-POC).                        *)
(*                                                                         *)
(* A Python string is modelled as a sequence of chunks.  A chunk is either  *)
(* one of the delimiter characters the code looks at (":" "," "=" "." " ") *)
(* or a run of characters holding none of them.  split, strip, lower,       *)
(* isdigit, int(), float() and str() are computed on these sequences as the *)
(* Python code computes them on characters.                                 *)
(***************************************************************************)
EXTENDS Integers, Sequences, FiniteSets, TLC

\* Longest list of ?op= parameters of a request.
MaxOps == 2

(***************************************************************************)
(* Strings                                                                 *)
(***************************************************************************)

\* Rows <<chunk, int(chunk), number of digits, chunk without trailing zeros>>.
DecTab ==
  { <<"0", 0, 1, "0">>, <<"5", 5, 1, "5">>, <<"007", 7, 3, "007">>,
    <<"18", 18, 2, "18">>, <<"45", 45, 2, "45">>, <<"50", 50, 2, "5">>,
    <<"90", 90, 2, "9">>, <<"180", 180, 3, "18">>, <<"270", 270, 3, "27">>,
    <<"450", 450, 3, "45">>, <<"1280", 1280, 4, "128">> }

\* Rows <<chunk, int(chunk)>> of the signed integers int() accepts and isdigit() rejects.
SignedTab == { <<"-2", -2>>, <<"-90", -90>> }

DecRow(c) == CHOOSE r \in DecTab : r[1] = c

IsDecimalChunk(c) == \E r \in DecTab : r[1] = c

IsSignedChunk(c) == \E r \in SignedTab : r[1] = c

SignedVal(c) == (CHOOSE r \in SignedTab : r[1] = c)[2]

\* str.lower() on one chunk.
LowerChunk(c) ==
  CASE c = "Resize" -> "resize"
    [] c = "HLS" -> "hls"
    [] c = "True" -> "true"
    [] c = "False" -> "false"
    [] c = "TRUE" -> "true"
    [] OTHER -> c

Lower(s) == [i \in 1..Len(s) |-> LowerChunk(s[i])]

RECURSIVE LStrip(_)
LStrip(s) == IF s # <<>> /\ Head(s) = " " THEN LStrip(Tail(s)) ELSE s

RECURSIVE RStrip(_)
RStrip(s) ==
  IF s # <<>> /\ s[Len(s)] = " " THEN RStrip(SubSeq(s, 1, Len(s) - 1)) ELSE s

\* str.strip()
Strip(s) == RStrip(LStrip(s))

\* d in s
Contains(s, d) == \E i \in 1..Len(s) : s[i] = d

\* index of the first d in s (s contains d)
FirstIdx(s, d) == CHOOSE i \in 1..Len(s) : s[i] = d /\ \A j \in 1..(i - 1) : s[j] # d

\* s.split(d, 1)
Split1(s, d) ==
  IF Contains(s, d)
    THEN << SubSeq(s, 1, FirstIdx(s, d) - 1), SubSeq(s, FirstIdx(s, d) + 1, Len(s)) >>
    ELSE << s >>

\* s.split(d)
RECURSIVE SplitAll(_, _)
SplitAll(s, d) ==
  IF Contains(s, d)
    THEN << SubSeq(s, 1, FirstIdx(s, d) - 1) >>
           \o SplitAll(SubSeq(s, FirstIdx(s, d) + 1, Len(s)), d)
    ELSE << s >>

\* d.join(parts)
RECURSIVE Join(_, _)
Join(parts, d) ==
  IF parts = <<>> THEN <<>>
  ELSE IF Len(parts) = 1 THEN parts[1]
  ELSE parts[1] \o << d >> \o Join(Tail(parts), d)

\* str.isdigit()
IsDigit(s) == s # <<>> /\ \A i \in 1..Len(s) : IsDecimalChunk(s[i])

RECURSIVE Pow10(_)
Pow10(n) == IF n = 0 THEN 1 ELSE 10 * Pow10(n - 1)

\* int(s) of a string of digits
RECURSIVE DigitsVal(_)
DigitsVal(s) ==
  IF s = <<>> THEN 0
  ELSE DigitsVal(SubSeq(s, 1, Len(s) - 1)) * Pow10(DecRow(s[Len(s)])[3])
         + DecRow(s[Len(s)])[2]

\* does int(s) succeed on the string s
IntParses(s) == IsDigit(s) \/ (Len(s) = 1 /\ IsSignedChunk(s[1]))

IntOfStr(s) == IF IsDigit(s) THEN DigitsVal(s) ELSE SignedVal(s[1])

\* does float(s) succeed on a string s that holds a "."
FloatParses(s) ==
  LET p == Split1(s, ".") IN
    /\ p[1] = <<>> \/ IntParses(p[1])
    /\ p[2] = <<>> \/ (Len(p[2]) = 1 /\ IsDecimalChunk(p[2][1]))
    /\ ~(p[1] = <<>> /\ p[2] = <<>>)

\* str(n) of an integer
IntStr(n) == << ToString(n) >>

(***************************************************************************)
(* Values of a descriptor: t the Python type, s what str() gives, n what    *)
(* int() gives when intok, truthy what bool() gives.                        *)
(***************************************************************************)

IntV(n) == [t |-> "int", s |-> IntStr(n), n |-> n, intok |-> TRUE, truthy |-> n # 0]

BoolV(b) ==
  [t |-> "bool", s |-> IF b THEN << "True" >> ELSE << "False" >>,
   n |-> IF b THEN 1 ELSE 0, intok |-> TRUE, truthy |-> b]

StrV(s) ==
  [t |-> "str", s |-> s, n |-> IF IntParses(s) THEN IntOfStr(s) ELSE 0,
   intok |-> IntParses(s), truthy |-> s # <<>>]

\* float(s) for a string s that FloatParses
FloatV(s) ==
  LET p == Split1(s, ".")
      ip == IF p[1] = <<>> THEN 0 ELSE IntOfStr(p[1])
      fr == IF p[2] = <<>> THEN "0" ELSE DecRow(p[2][1])[4]
      fz == p[2] = <<>> \/ DecRow(p[2][1])[2] = 0
  IN [t |-> "float", s |-> << ToString(ip), ".", fr >>, n |-> ip,
      intok |-> TRUE, truthy |-> ~(ip = 0 /\ fz)]

(***************************************************************************)
(* parse_ops_query                                                         *)
(***************************************************************************)

\* the coercion of one argument value
Coerce(raw) ==
  LET v == Strip(raw) IN
    IF Lower(v) \in { << "true" >>, << "false" >> } THEN BoolV(Lower(v) = << "true" >>)
    ELSE IF IsDigit(v) THEN IntV(DigitsVal(v))
    ELSE IF Contains(v, ".") /\ FloatParses(v) THEN FloatV(v)
    ELSE StrV(v)

\* item[k] = v
DictSet(d, k, v) == [x \in (DOMAIN d) \cup {k} |-> IF x = k THEN v ELSE d[x]]

\* op.get(k, default)
Get(d, k, default) == IF k \in DOMAIN d THEN d[k] ELSE default

KEY_OP == << "op" >>

\* the loop over args.split(",")
RECURSIVE ParseArgs(_, _)
ParseArgs(item, parts) ==
  IF parts = <<>> THEN item
  ELSE LET part == Head(parts) IN
    IF part = <<>> THEN ParseArgs(item, Tail(parts))
    ELSE IF Contains(part, "=")
      THEN ParseArgs(DictSet(item, Strip(Split1(part, "=")[1]), Coerce(Split1(part, "=")[2])),
                     Tail(parts))
      ELSE ParseArgs(DictSet(item, Strip(part), BoolV(TRUE)), Tail(parts))

\* one descriptor from one non-empty raw string; the GPU variant lower-cases the name
ParseItem(gpu, raw) ==
  LET sp == Split1(raw, ":")
      name == sp[1]
      args == IF Len(sp) = 2 THEN sp[2] ELSE <<>>
      item == [x \in {KEY_OP} |-> StrV(IF gpu THEN Lower(Strip(name)) ELSE Strip(name))]
  IN IF args # <<>> THEN ParseArgs(item, SplitAll(args, ",")) ELSE item

RECURSIVE parse_ops_query(_, _)
parse_ops_query(gpu, op_params) ==
  IF op_params = <<>> THEN <<>>
  ELSE IF Head(op_params) = <<>> THEN parse_ops_query(gpu, Tail(op_params))
  ELSE << ParseItem(gpu, Head(op_params)) >> \o parse_ops_query(gpu, Tail(op_params))

(***************************************************************************)
(* Configuration read from the environment at import                        *)
(***************************************************************************)

DEFAULT_CRF == << "23" >>

DEFAULT_PRESET == << "veryfast" >>

WM_TEXT == << "(c)", " ", "Demo", " ", "Watermark" >>

WM_IMAGE == << "wm", ".", "png" >>

WM_FONT == << "/usr/share/fonts/truetype/dejavu/DejaVuSans", ".", "ttf" >>

WM_FONTSIZE == 28

WM_OPACITY == 35

WM_INSET == 12

SOFTWARE == "libx264"

VAAPI == "h264_vaapi"

\* the value of an Optional that is None
None == << "None" >>

\* x or default, for an Optional[str] x
OrElse(x, default) == IF x = None \/ x = <<>> THEN default ELSE x

\* a list of one-chunk arguments
Toks(cs) == [k \in 1..Len(cs) |-> << cs[k] >>]

(***************************************************************************)
(* Command builders                                                        *)
(***************************************************************************)

FFMPEG == "ffmpeg"

BaseFlags == Toks(<< FFMPEG, "-hide_banner", "-nostdin", "-y", "-loglevel", "error" >>)

\* _base_cmd of the CPU variant
BaseCmdCpu(in_path) == BaseFlags \o << << "-i" >>, in_path >>

\* _base_cmd of the GPU variant: VAAPI_DEVICE is a name the module never binds
BaseCmdGpu(encoder, in_path) ==
  IF encoder = VAAPI
    THEN [raised |-> "NameError", cmd |-> <<>>]
    ELSE [raised |-> "", cmd |-> BaseFlags \o << << "-i" >>, in_path >>]

\* choose_container_and_codecs of the CPU variant
ChooseCpu(fmt0) ==
  LET fmt == Lower(OrElse(fmt0, << "mp4" >>)) IN
    IF fmt \in { << "mp4" >>, << "m4v" >>, << "mov" >> }
      THEN [container |-> "mp4",
            args |-> Toks(<< "-c:v", "libx264", "-c:a", "aac", "-movflags", "+faststart" >>)]
    ELSE IF fmt = << "webm" >>
      THEN [container |-> "webm",
            args |-> Toks(<< "-c:v", "libvpx-vp9", "-row-mt", "1", "-c:a", "libopus" >>)]
    ELSE IF fmt = << "mkv" >>
      THEN [container |-> "mkv", args |-> Toks(<< "-c:v", "libx264", "-c:a", "aac" >>)]
    ELSE IF fmt = << "gif" >>
      THEN [container |-> "gif", args |-> Toks(<< "-an", "-loop", "0" >>)]
    ELSE IF fmt \in { << "hls" >>, << "m3u8" >> }
      THEN [container |-> "m3u8",
            args |-> Toks(<< "-c:v", "libx264", "-c:a", "aac", "-f", "hls",
                             "-hls_time", "4", "-hls_list_size", "0" >>)]
    ELSE [container |-> "mp4",
          args |-> Toks(<< "-c:v", "libx264", "-c:a", "aac", "-movflags", "+faststart" >>)]

Threads == Toks(<< "-threads", "0" >>)

\* the video arguments of the mkv and hls branches of the GPU variant
GpuVideoArgs(encoder) ==
  IF encoder = VAAPI
    THEN Toks(<< "-c:v", "h264_vaapi", "-b:v", "0", "-qp" >>) \o << DEFAULT_CRF >>
    ELSE Toks(<< "-c:v", "libx264", "-preset" >>) \o << DEFAULT_PRESET >>
           \o << << "-crf" >>, DEFAULT_CRF >>

\* the software mp4 profile of the GPU variant
GpuX264Mp4 ==
  Threads \o Toks(<< "-c:v", "libx264", "-preset" >>) \o << DEFAULT_PRESET >>
    \o << << "-crf" >>, DEFAULT_CRF >>
    \o Toks(<< "-c:a", "aac", "-movflags", "+faststart", "-pix_fmt", "yuv420p" >>)

\* choose_container_and_codecs of the GPU variant
ChooseGpu(encoder, fmt0) ==
  LET fmt == Lower(OrElse(fmt0, << "mp4" >>)) IN
    IF fmt \in { << "mp4" >>, << "m4v" >>, << "mov" >> }
      THEN IF encoder = VAAPI
        THEN [container |-> "mp4",
              args |-> Threads \o Toks(<< "-c:v", "h264_vaapi", "-b:v", "0", "-qp" >>)
                         \o << DEFAULT_CRF >>
                         \o Toks(<< "-c:a", "aac", "-movflags", "+faststart" >>)]
        ELSE [container |-> "mp4", args |-> GpuX264Mp4]
    ELSE IF fmt = << "webm" >>
      THEN [container |-> "webm",
            args |-> Threads \o Toks(<< "-c:v", "libvpx-vp9", "-row-mt", "1", "-c:a", "libopus" >>)]
    ELSE IF fmt = << "mkv" >>
      THEN [container |-> "mkv",
            args |-> Threads \o GpuVideoArgs(encoder) \o Toks(<< "-c:a", "aac" >>)]
    ELSE IF fmt = << "gif" >>
      THEN [container |-> "gif", args |-> Threads \o Toks(<< "-an", "-loop", "0" >>)]
    ELSE IF fmt \in { << "hls" >>, << "m3u8" >> }
      THEN [container |-> "m3u8",
            args |-> Threads \o GpuVideoArgs(encoder)
                       \o Toks(<< "-c:a", "aac", "-f", "hls", "-hls_time", "4",
                                  "-hls_list_size", "0" >>)]
    ELSE [container |-> "mp4", args |-> GpuX264Mp4]

choose_container_and_codecs(gpu, encoder, fmt) ==
  IF gpu THEN ChooseGpu(encoder, fmt) ELSE ChooseCpu(fmt)

\* escape_drawtext on one chunk
EscapeChunk(c) ==
  CASE c = "\\" -> << "\\", "\\" >>
    [] c = ":" -> << "\\", ":" >>
    [] c = "'" -> << "\\", "'" >>
    [] OTHER -> << c >>

RECURSIVE escape_drawtext(_)
escape_drawtext(s) ==
  IF s = <<>> THEN <<>> ELSE EscapeChunk(Head(s)) \o escape_drawtext(Tail(s))

(***************************************************************************)
(* The loop of _apply_ops_and_watermark over the descriptors                *)
(***************************************************************************)

\* the locals of _apply_ops_and_watermark before the loop
CompileStart(cmd) ==
  [cmd |-> cmd, vf |-> <<>>, forced_ext |-> None, is_hls |-> FALSE,
   vcodec_args |-> <<>>, acodec_args |-> <<>>, raised |-> ""]

\* name == lit, for the value name of a descriptor's "op" key
NameIs(name, lit) == name.t = "str" /\ name.s = << lit >>

\* OpFormat with is_hls following the last format operation
OpFormat_LastWins(st, op) ==
  LET forced_ext == Lower(Get(op, << "type" >>, StrV(<< "mp4" >>)).s) IN
    [st EXCEPT !.forced_ext = forced_ext,
               !.is_hls = forced_ext \in { << "hls" >>, << "m3u8" >> }]

\* elif name == "format"
OpFormat(st, op) ==
  LET forced_ext == Lower(Get(op, << "type" >>, StrV(<< "mp4" >>)).s) IN
    [st EXCEPT !.forced_ext = forced_ext,
               !.is_hls = IF forced_ext \in { << "hls" >>, << "m3u8" >> } THEN TRUE ELSE @]

\* elif name in ("resize","scale")
OpScale(st, op) ==
  LET w == Get(op, << "width" >>, IntV(-2))
      h == Get(op, << "height" >>, IntV(-2))
  IN [st EXCEPT !.vf = Append(@, << "scale=" >> \o w.s \o << ":" >> \o h.s)]

\* elif name == "fps"
OpFps(st, op) ==
  [st EXCEPT !.vf = Append(@, << "fps=" >> \o Get(op, << "value" >>, IntV(30)).s)]

\* elif name == "crop"
OpCrop(st, op) ==
  LET w == Get(op, << "width" >>, StrV(<< "iw" >>))
      h == Get(op, << "height" >>, StrV(<< "ih" >>))
      x == Get(op, << "x" >>, StrV(<< "(iw-ow)/2" >>))
      y == Get(op, << "y" >>, StrV(<< "(ih-oh)/2" >>))
  IN [st EXCEPT !.vf = Append(@, << "crop=" >> \o w.s \o << ":" >> \o h.s
                                   \o << ":" >> \o x.s \o << ":" >> \o y.s)]

\* elif name == "bitrate"
OpBitrate(st, op) ==
  [st EXCEPT
     !.vcodec_args = IF << "video" >> \in DOMAIN op
                       THEN @ \o << << "-b:v" >>, op[<< "video" >>].s >> ELSE @,
     !.acodec_args = IF << "audio" >> \in DOMAIN op
                       THEN @ \o << << "-b:a" >>, op[<< "audio" >>].s >> ELSE @]

\* elif name == "audio": if op.get("remove", False)
OpAudio(st, op) ==
  IF Get(op, << "remove" >>, BoolV(FALSE)).truthy
    THEN [st EXCEPT !.cmd = @ \o << << "-an" >> >>]
    ELSE st

\* rad = deg * 3.14159265 / 180.0, kept to the milliradian
RadMilli(deg) == (deg * 314159) \div 18000

\* elif name == "rotate"
OpRotate(st, op) ==
  LET d == Get(op, << "degrees" >>, IntV(0)) IN
    IF ~d.intok THEN [st EXCEPT !.raised = "ValueError"]
    ELSE LET deg == d.n IN
      IF deg % 90 = 0
        THEN IF deg = 90 THEN [st EXCEPT !.vf = Append(@, << "transpose=1" >>)]
             ELSE IF deg = 180
               THEN [st EXCEPT !.vf = Append(@, << "transpose=1", ",", "transpose=1" >>)]
             ELSE IF deg = 270 THEN [st EXCEPT !.vf = Append(@, << "transpose=2" >>)]
             ELSE st
        ELSE [st EXCEPT !.vf = Append(@, << "rotate=", ToString(RadMilli(deg)), "e-3",
                                            ":", "fillcolor=black" >>)]

\* elif name in ("grayscale","monochrome")
OpGray(st, op) == [st EXCEPT !.vf = Append(@, << "format=gray" >>)]

\* elif name == "thumbnail"
OpThumbnail(st, op) ==
  [st EXCEPT
     !.cmd = @ \o << << "-ss" >>, Get(op, << "at" >>, IntV(1)).s, << "-frames:v" >>, << "1" >> >>,
     !.forced_ext = IF @ = None \/ @ = <<>> THEN << "png" >> ELSE @]

\* one iteration of the loop, CPU variant
ApplyOpCpu(st, op) ==
  LET v == Get(op, KEY_OP, StrV(<<>>)) IN
    IF v.t # "str" THEN [st EXCEPT !.raised = "AttributeError"]
    ELSE LET name == StrV(Lower(v.s)) IN
      IF NameIs(name, "format") THEN OpFormat(st, op)
      ELSE IF NameIs(name, "scale") \/ NameIs(name, "resize") THEN OpScale(st, op)
      ELSE IF NameIs(name, "fps") THEN OpFps(st, op)
      ELSE IF NameIs(name, "crop") THEN OpCrop(st, op)
      ELSE IF NameIs(name, "bitrate") THEN OpBitrate(st, op)
      ELSE IF NameIs(name, "crf")
        THEN [st EXCEPT !.vcodec_args = @ \o << << "-crf" >>, Get(op, << "value" >>, IntV(23)).s >>]
      ELSE IF NameIs(name, "preset")
        THEN [st EXCEPT !.vcodec_args =
                @ \o << << "-preset" >>, Get(op, << "value" >>, StrV(<< "veryfast" >>)).s >>]
      ELSE IF NameIs(name, "audio") THEN OpAudio(st, op)
      ELSE IF NameIs(name, "rotate") THEN OpRotate(st, op)
      ELSE IF NameIs(name, "grayscale") \/ NameIs(name, "monochrome") THEN OpGray(st, op)
      ELSE IF NameIs(name, "thumbnail") THEN OpThumbnail(st, op)
      ELSE st

\* one iteration of the loop, GPU variant
ApplyOpGpu(encoder, st, op) ==
  LET name == Get(op, KEY_OP, StrV(<<>>)) IN
    IF NameIs(name, "format") THEN OpFormat(st, op)
    ELSE IF NameIs(name, "resize") \/ NameIs(name, "scale") THEN OpScale(st, op)
    ELSE IF NameIs(name, "fps") THEN OpFps(st, op)
    ELSE IF NameIs(name, "crop") THEN OpCrop(st, op)
    ELSE IF NameIs(name, "bitrate") THEN OpBitrate(st, op)
    ELSE IF NameIs(name, "crf")
      THEN [st EXCEPT !.vcodec_args =
              @ \o << IF encoder # VAAPI THEN << "-crf" >> ELSE << "-qp" >>,
                      Get(op, << "value" >>, IntV(23)).s >>]
    ELSE IF NameIs(name, "preset") /\ encoder # VAAPI
      THEN [st EXCEPT !.vcodec_args =
              @ \o << << "-preset" >>, Get(op, << "value" >>, StrV(<< "veryfast" >>)).s >>]
    ELSE IF NameIs(name, "audio") /\ Get(op, << "remove" >>, BoolV(FALSE)).truthy
      THEN OpAudio(st, op)
    ELSE IF NameIs(name, "rotate") THEN OpRotate(st, op)
    ELSE IF NameIs(name, "grayscale") \/ NameIs(name, "monochrome") THEN OpGray(st, op)
    ELSE IF NameIs(name, "thumbnail") THEN OpThumbnail(st, op)
    ELSE IF NameIs(name, "fast")
      THEN [st EXCEPT !.vcodec_args =
              @ \o (IF encoder = VAAPI THEN Toks(<< "-qp", "28" >>)
                    ELSE Toks(<< "-preset", "ultrafast", "-crf", "28" >>))]
    ELSE st

(***************************************************************************)
(* The watermark stage and the return of _apply_ops_and_watermark           *)
(***************************************************************************)

\* max(0, min(100, WM_OPACITY)), alpha in hundredths
AlphaPct == IF WM_OPACITY < 0 THEN 0 ELSE IF WM_OPACITY > 100 THEN 100 ELSE WM_OPACITY

\* f"{x:.2f}" of x = h / 100
Fmt2f(h) == << ToString(h \div 100), ".", ToString((h % 100) \div 10) \o ToString(h % 10) >>

\* str(x) of x = h / 100
FloatRepr(h) ==
  IF h % 100 = 0 THEN << ToString(h \div 100), ".", "0" >>
  ELSE IF h % 10 = 0 THEN << ToString(h \div 100), ".", ToString((h % 100) \div 10) >>
  ELSE Fmt2f(h)

\* the drawtext filter of the text watermark
DrawText ==
  << "drawtext=fontfile='" >> \o WM_FONT \o << "'", ":", "text='" >>
    \o escape_drawtext(WM_TEXT)
    \o << "'", ":", "fontsize=", ToString(WM_FONTSIZE), ":", "fontcolor=white@" >>
    \o Fmt2f(AlphaPct)
    \o << ":", "borderw=2", ":", "bordercolor=black@" >>
    \o Fmt2f((AlphaPct * 6 + 5) \div 10)
    \o << ":", "x=w-tw-", ToString(WM_INSET), ":", "y=h-th-", ToString(WM_INSET) >>

\* the overlay graph of the image watermark
WmChain ==
  << "[1:v]format=rgba", ",", "colorchannelmixer=aa=" >> \o FloatRepr(AlphaPct)
    \o << "[wm];[0:v][wm]overlay=W-w-", ToString(WM_INSET), ":", "H-h-", ToString(WM_INSET),
          "[vout]" >>

\* the filter appended for the VAAPI encoder
HwUpload == << "format=nv12", ",", "hwupload" >>

\* CompileEndCpu with the -vf option attached only when the operations gave a filter
CompileEndCpu_OpsOnly(st, img) ==
  LET complex_inputs == IF img THEN << << "-i" >>, WM_IMAGE >> ELSE <<>>
      vf_filters == IF img THEN st.vf ELSE Append(st.vf, DrawText)
      vf_or_complex == IF img
                         THEN << << "-filter_complex" >>, WmChain, << "-map" >>, << "[vout]" >> >>
                         ELSE <<>>
      cmd1 == IF img THEN st.cmd \o Toks(<< "-map", "0:a?" >>) ELSE st.cmd
      cmd2 == IF complex_inputs # <<>> THEN cmd1 \o complex_inputs ELSE cmd1
      cmd3 == IF st.vf # <<>> /\ complex_inputs = <<>>
                THEN cmd2 \o << << "-vf" >>, Join(vf_filters, ",") >> ELSE cmd2
  IN [cmd |-> cmd3 \o st.vcodec_args \o st.acodec_args,
      forced_ext |-> st.forced_ext,
      complex_tuple |-> IF complex_inputs # <<>> THEN SubSeq(vf_or_complex, 1, 3) ELSE <<>>,
      is_hls |-> st.is_hls,
      vf_and_codecs |-> <<>>]

\* CPU variant, from "# Watermark (always)" to the return; img: WM_IMAGE is set and exists
CompileEndCpu(st, img) ==
  LET complex_inputs == IF img THEN << << "-i" >>, WM_IMAGE >> ELSE <<>>
      vf_filters == IF img THEN st.vf ELSE Append(st.vf, DrawText)
      vf_or_complex == IF img
                         THEN << << "-filter_complex" >>, WmChain, << "-map" >>, << "[vout]" >> >>
                         ELSE <<>>
      cmd1 == IF img THEN st.cmd \o Toks(<< "-map", "0:a?" >>) ELSE st.cmd
      cmd2 == IF complex_inputs # <<>> THEN cmd1 \o complex_inputs ELSE cmd1
      cmd3 == IF vf_filters # <<>> /\ complex_inputs = <<>>
                THEN cmd2 \o << << "-vf" >>, Join(vf_filters, ",") >> ELSE cmd2
  IN [cmd |-> cmd3 \o st.vcodec_args \o st.acodec_args,
      forced_ext |-> st.forced_ext,
      complex_tuple |-> IF complex_inputs # <<>> THEN SubSeq(vf_or_complex, 1, 3) ELSE <<>>,
      is_hls |-> st.is_hls,
      vf_and_codecs |-> <<>>]

\* GPU variant, from "# ---- Watermark" to the return
CompileEndGpu(encoder, wm_enabled, img, st) ==
  LET vf_or_complex == IF wm_enabled /\ img
                         THEN << << "-filter_complex" >>, WmChain, << "-map" >> >> ELSE <<>>
      vf1 == IF wm_enabled /\ ~img THEN Append(st.vf, DrawText) ELSE st.vf
      vf2 == IF encoder = VAAPI /\ vf_or_complex = <<>> THEN Append(vf1, HwUpload) ELSE vf1
      extra_codec_args == st.vcodec_args \o st.acodec_args
  IN [cmd |-> st.cmd,
      forced_ext |-> st.forced_ext,
      complex_tuple |-> vf_or_complex,
      is_hls |-> st.is_hls,
      vf_and_codecs |-> (IF vf2 # <<>> THEN << << "-vf" >>, Join(vf2, ",") >> ELSE <<>>)
                          \o extra_codec_args
                          \o (IF vf_or_complex = <<>> THEN <<>> ELSE << << "[vout]" >> >>)]

(***************************************************************************)
(* process_video                                                           *)
(***************************************************************************)

IN_PATH == << "tmpdir", "/", "in-uuid" >>

HLS_DIR == << "tmpdir", "/", "hls-uuid8" >>

PLAYLIST == HLS_DIR \o << "/", "index", ".", "m3u8" >>

SEG_TMPL == HLS_DIR \o << "/", "seg_%04d", ".", "ts" >>

ZIP_PATH == << "tmpdir", "/", "hls_uuid8", ".", "zip" >>

OutPath(container) == << "tmpdir", "/", "out-uuid", ".", container >>

HlsNames == { << "hls" >>, << "m3u8" >> }

\* the test that sends process_video down the HLS path
TakesHls(gpu, ret) ==
  IF gpu THEN OrElse(ret.forced_ext, <<>>) \in HlsNames \/ ret.is_hls ELSE ret.is_hls

\* what process_video splices in for the filter graph
ComplexArgs(gpu, ret) ==
  IF ret.complex_tuple = <<>> THEN <<>>
  ELSE IF gpu
    THEN << ret.complex_tuple[1], ret.complex_tuple[2], ret.complex_tuple[3] >>
           \o Toks(<< "[vout]", "-map", "0:a?" >>)
    ELSE ret.complex_tuple

\* the argument vector of the HLS path
FinalHls(gpu, encoder, ret) ==
  ret.cmd \o ComplexArgs(gpu, ret) \o ret.vf_and_codecs
    \o choose_container_and_codecs(gpu, encoder, << "hls" >>).args
    \o << << "-hls_segment_filename" >>, SEG_TMPL, PLAYLIST >>

\* the argument vector of the single-file path
FinalSingle(gpu, encoder, ret) ==
  LET sel == choose_container_and_codecs(gpu, encoder, OrElse(ret.forced_ext, << "mp4" >>)) IN
    ret.cmd \o ComplexArgs(gpu, ret) \o ret.vf_and_codecs \o sel.args
      \o << OutPath(sel.container) >>

\* the content type of a single-file output
MediaType(container) ==
  CASE container = "mp4" -> "video/mp4"
    [] container = "webm" -> "video/webm"
    [] container = "mkv" -> "video/x-matroska"
    [] container = "mov" -> "video/quicktime"
    [] container = "gif" -> "image/gif"
    [] container = "m3u8" -> "application/vnd.apple.mpegurl"
    [] OTHER -> "application/octet-stream"

(***************************************************************************)
(* Requests                                                                *)
(***************************************************************************)

\* the raw ?op= strings a request is built from
RawOps ==
  { << "resize", ":", "width", "=", "1280", ",", "height", "=", "-2" >>,
    << "fps", ":", "value", "=", "007" >>,
    << "grayscale" >>,
    << "crop" >>,
    << "rotate", ":", "degrees", "=", "90" >>,
    << "rotate", ":", "degrees", "=", "180" >>,
    << "rotate", ":", "degrees", "=", "270" >>,
    << "rotate", ":", "degrees", "=", "0" >>,
    << "rotate", ":", "degrees", "=", "450" >>,
    << "rotate", ":", "degrees", "=", "45", ".", "50" >>,
    << "rotate", ":", "degrees", "=", "abc" >>,
    << "rotate", ":", "degrees", "=" >>,
    << "format", ":", "type", "=", "HLS" >>,
    << "format", ":", "type", "=", "webm" >>,
    << "format", ":", "type", "=", "mov" >>,
    << "thumbnail", ":", "at", "=", "5" >>,
    << "audio", ":", "remove", "=", "true" >>,
    << "crf", ":", "value", "=", "18" >>,
    << "bitrate", ":", "video", "=", "2M", ",", "audio" >>,
    << "fast" >>,
    << "preset" >>,
    << "zzz", ":", "level", "=", "5" >>,
    << "zzz", ":", "op", "=", "fps" >>,
    << "zzz", ":", "op", "=", "5" >>,
    << " ", "resize", " " >>,
    << >> }

\* the raw strings of the direct calls of the compiler
UnitRawOps ==
  { << "resize", ":", "width", "=", "1280", ",", "height", "=", "-2" >>,
    << "rotate", ":", "degrees", "=", "90" >>,
    << "format", ":", "type", "=", "webm" >>,
    << "crf", ":", "value", "=", "18" >>,
    << "fast" >>,
    << " ", "Resize", " " >> }

\* the formats of the direct calls of the selector
Formats ==
  { None, << >>, << "mp4" >>, << "m4v" >>, << "mov" >>, << "webm" >>, << "mkv" >>,
    << "gif" >>, << "hls" >>, << "m3u8" >>, << "avi" >>, << "png" >>, << "HLS" >> }

\* the lists of at most MaxOps elements of S
ListsOf(S) == UNION { [1..n -> S] : n \in 0..MaxOps }

NoSt == CompileStart(<<>>)

NoRet ==
  [cmd |-> <<>>, forced_ext |-> None, complex_tuple |-> <<>>, is_hls |-> FALSE,
   vf_and_codecs |-> <<>>]

NoSel == [container |-> "", args |-> <<>>]

NoResult == [out_path |-> <<>>, media_type |-> ""]

VARIABLES
  variant,      \* "cpu": CPU-Powered-POC, "gpu": Integrated-GPU-Powered-POC
  ENCODER,      \* VIDEO_ENCODER
  WM_ENABLED,   \* WATERMARK_ENABLED
  wm_image,     \* WM_IMAGE is set and the file exists
  op_params,    \* the raw ?op= strings of the request
  fmt,          \* the argument of _choose_container_and_codecs
  pc,           \* where the request is
  ops,          \* the descriptors parse_ops_query returned
  i,            \* the loop of _apply_ops_and_watermark: index of the next descriptor
  st,           \* the locals of _apply_ops_and_watermark
  ret,          \* what _apply_ops_and_watermark returned
  sel,          \* what _choose_container_and_codecs returned
  final,        \* the argument vector handed to _run
  events,       \* os.makedirs, subprocess.run and _zip_dir calls made, in order
  result,       \* what process_video returned
  err,          \* the exception raised, "" when none
  tmpdir,       \* the working directory of the job: "none", "exists" or "deleted"
  delivered     \* the deliverable has been read for the response

vars ==
  << variant, ENCODER, WM_ENABLED, wm_image, op_params, fmt, pc, ops, i, st, ret, sel,
     final, events, result, err, tmpdir, delivered >>

job == << tmpdir, delivered >>

config == << variant, ENCODER, WM_ENABLED, wm_image, op_params >>

gpu == variant = "gpu"

\* the deployments: the CPU variant has one encoder and no switch for the watermark
Configs ==
  /\ variant \in { "cpu", "gpu" }
  /\ ENCODER \in (IF variant = "cpu" THEN { SOFTWARE } ELSE { SOFTWARE, VAAPI })
  /\ WM_ENABLED \in (IF variant = "cpu" THEN { TRUE } ELSE BOOLEAN)
  /\ wm_image \in BOOLEAN

Blank ==
  /\ ops = <<>>
  /\ i = 0
  /\ st = NoSt
  /\ ret = NoRet
  /\ sel = NoSel
  /\ final = <<>>
  /\ events = <<>>
  /\ result = NoResult
  /\ err = ""
  /\ tmpdir = "none"
  /\ delivered = FALSE

\* a request arrives at process_video_endpoint
Init ==
  /\ Configs
  /\ op_params \in ListsOf(RawOps)
  /\ fmt = None
  /\ pc = "request"
  /\ Blank

\* ops_list = parse_ops_query((op or []) + (ops or []))
Parse ==
  /\ pc = "request"
  /\ ops' = parse_ops_query(gpu, op_params)
  /\ pc' = "parsed"
  /\ UNCHANGED << config, job, fmt, i, st, ret, sel, final, events, result, err >>

\* tmpdir = tempfile.mkdtemp(prefix="ffx-")
MakeTmp ==
  /\ pc = "parsed"
  /\ tmpdir' = "exists"
  /\ pc' = "upload"
  /\ UNCHANGED << config, delivered, fmt, ops, i, st, ret, sel, final, events, result, err >>

\* the upload is written to in_path, before the try statement is entered
WriteInputOk ==
  /\ pc = "upload"
  /\ pc' = "written"
  /\ UNCHANGED << config, job, fmt, ops, i, st, ret, sel, final, events, result, err >>

\* open, file.read or f.write raises: the exception leaves the handler
WriteInputFail ==
  /\ pc = "upload"
  /\ pc' = "aborted"
  /\ err' = "OSError"
  /\ UNCHANGED << config, job, fmt, ops, i, st, ret, sel, final, events, result >>

\* process_video up to the loop: base_cmd = _base_cmd(in_path)
StartProcess ==
  /\ pc = "written"
  /\ LET b == IF gpu THEN BaseCmdGpu(ENCODER, IN_PATH)
                     ELSE [raised |-> "", cmd |-> BaseCmdCpu(IN_PATH)] IN
       IF b.raised # ""
         THEN /\ pc' = "failed"
              /\ err' = b.raised
              /\ UNCHANGED << i, st >>
         ELSE /\ pc' = "ops"
              /\ i' = 1
              /\ st' = CompileStart(b.cmd)
              /\ UNCHANGED err
  /\ UNCHANGED << config, job, fmt, ops, ret, sel, final, events, result >>

\* one iteration of "for op in ops"
ApplyOp ==
  /\ pc = "ops"
  /\ i <= Len(ops)
  /\ LET s1 == IF gpu THEN ApplyOpGpu(ENCODER, st, ops[i]) ELSE ApplyOpCpu(st, ops[i]) IN
       /\ st' = s1
       /\ IF s1.raised # ""
            THEN pc' = "failed" /\ err' = s1.raised /\ UNCHANGED i
            ELSE i' = i + 1 /\ UNCHANGED << pc, err >>
  /\ UNCHANGED << config, job, fmt, ops, ret, sel, final, events, result >>

\* the rest of _apply_ops_and_watermark: the watermark stage and the return
Watermark ==
  /\ pc = "ops"
  /\ i > Len(ops)
  /\ ret' = IF gpu THEN CompileEndGpu(ENCODER, WM_ENABLED, wm_image, st)
                   ELSE CompileEndCpu(st, wm_image)
  /\ pc' = "compiled"
  /\ UNCHANGED << config, job, fmt, ops, i, st, sel, final, events, result, err >>

\* process_video, HLS path up to _run(final)
BuildHls ==
  /\ pc = "compiled"
  /\ TakesHls(gpu, ret)
  /\ events' = Append(events, "makedirs")
  /\ fmt' = << "hls" >>
  /\ sel' = choose_container_and_codecs(gpu, ENCODER, << "hls" >>)
  /\ final' = FinalHls(gpu, ENCODER, ret)
  /\ pc' = "run_hls"
  /\ UNCHANGED << config, job, ops, i, st, ret, result, err >>

\* process_video, single-file path up to _run(final)
BuildSingle ==
  /\ pc = "compiled"
  /\ ~TakesHls(gpu, ret)
  /\ fmt' = OrElse(ret.forced_ext, << "mp4" >>)
  /\ sel' = choose_container_and_codecs(gpu, ENCODER, OrElse(ret.forced_ext, << "mp4" >>))
  /\ final' = FinalSingle(gpu, ENCODER, ret)
  /\ pc' = "run_single"
  /\ UNCHANGED << config, job, ops, i, st, ret, events, result, err >>

\* _run(final) of the HLS path: the engine exits 0
RunHlsOk ==
  /\ pc = "run_hls"
  /\ events' = Append(events, "run")
  /\ pc' = "zip"
  /\ UNCHANGED << config, job, fmt, ops, i, st, ret, sel, final, result, err >>

\* _run(final) of the single-file path: the engine exits 0, process_video returns
RunSingleOk ==
  /\ pc = "run_single"
  /\ events' = Append(events, "run")
  /\ result' = [out_path |-> final[Len(final)], media_type |-> MediaType(sel.container)]
  /\ pc' = "returned"
  /\ UNCHANGED << config, job, fmt, ops, i, st, ret, sel, final, err >>

\* _run(final): the engine exits non-zero
RunFail ==
  /\ pc \in { "run_hls", "run_single" }
  /\ events' = Append(events, "run")
  /\ pc' = "failed"
  /\ err' = "RuntimeError"
  /\ UNCHANGED << config, job, fmt, ops, i, st, ret, sel, final, result >>

\* _zip_dir(hls_dir, zip_path) and the return of the HLS path
ZipDir ==
  /\ pc = "zip"
  /\ events' = Append(events, "zip")
  /\ result' = [out_path |-> ZIP_PATH, media_type |-> "application/zip"]
  /\ pc' = "returned"
  /\ UNCHANGED << config, job, fmt, ops, i, st, ret, sel, final, err >>

\* _zip_dir raises
ZipFail ==
  /\ pc = "zip"
  /\ pc' = "failed"
  /\ err' = "OSError"
  /\ UNCHANGED << config, job, fmt, ops, i, st, ret, sel, final, events, result >>

\* src/main.py: return FileResponse(out_path, ...), the file is streamed to the client
SendFile ==
  /\ pc = "returned" /\ gpu
  /\ delivered' = TRUE
  /\ pc' = "sent"
  /\ UNCHANGED << config, tmpdir, fmt, ops, i, st, ret, sel, final, events, result, err >>

\* src/main.py: the background task _cleanup runs after the response
Cleanup ==
  /\ pc = "sent"
  /\ tmpdir' = "deleted"
  /\ pc' = "done"
  /\ UNCHANGED << config, delivered, fmt, ops, i, st, ret, sel, final, events, result, err >>

\* CPU main.py: upload_file(out_path, key, ...) and the URL of the object
S3UploadOk ==
  /\ pc = "returned" /\ ~gpu
  /\ delivered' = TRUE
  /\ pc' = "stored"
  /\ UNCHANGED << config, tmpdir, fmt, ops, i, st, ret, sel, final, events, result, err >>

\* CPU main.py: upload_file raises
S3UploadFail ==
  /\ pc = "returned" /\ ~gpu
  /\ pc' = "failed"
  /\ err' = "S3Error"
  /\ UNCHANGED << config, job, fmt, ops, i, st, ret, sel, final, events, result >>

\* CPU main.py: shutil.rmtree(tmpdir, ignore_errors=True), then the JSONResponse
RespondJson ==
  /\ pc = "stored"
  /\ tmpdir' = "deleted"
  /\ pc' = "done"
  /\ UNCHANGED << config, delivered, fmt, ops, i, st, ret, sel, final, events, result, err >>

\* except Exception: shutil.rmtree(tmpdir, ignore_errors=True), HTTPException(500)
HandleError ==
  /\ pc = "failed"
  /\ tmpdir' = "deleted"
  /\ pc' = "error500"
  /\ UNCHANGED << config, delivered, fmt, ops, i, st, ret, sel, final, events, result, err >>

Next ==
  \/ Parse
  \/ MakeTmp
  \/ WriteInputOk
  \/ WriteInputFail
  \/ StartProcess
  \/ ApplyOp
  \/ Watermark
  \/ BuildHls
  \/ BuildSingle
  \/ RunHlsOk
  \/ RunSingleOk
  \/ RunFail
  \/ ZipDir
  \/ ZipFail
  \/ SendFile
  \/ Cleanup
  \/ S3UploadOk
  \/ S3UploadFail
  \/ RespondJson
  \/ HandleError

Spec == Init /\ [][Next]_vars

(***************************************************************************)
(* Direct calls of the selector and of the compiler, as a unit test makes   *)
(* them: any format, any encoder, a base command given by the caller.       *)
(***************************************************************************)

InitUnit ==
  /\ Configs
  /\ op_params \in ListsOf(UnitRawOps)
  /\ fmt \in Formats
  /\ pc = "unit"
  /\ Blank

\* _choose_container_and_codecs(fmt)
UnitChoose ==
  /\ pc = "unit"
  /\ sel' = choose_container_and_codecs(gpu, ENCODER, fmt)
  /\ pc' = "request"
  /\ UNCHANGED << config, job, fmt, ops, i, st, ret, final, events, result, err >>

\* _apply_ops_and_watermark(cmd, ops, ...) on a base command with the input
UnitCompile ==
  /\ pc = "parsed"
  /\ st' = CompileStart(BaseCmdCpu(IN_PATH))
  /\ i' = 1
  /\ pc' = "ops"
  /\ UNCHANGED << config, job, fmt, ops, ret, sel, final, events, result, err >>

NextUnit ==
  \/ UnitChoose
  \/ Parse
  \/ UnitCompile
  \/ ApplyOp
  \/ Watermark

SpecUnit == InitUnit /\ [][NextUnit]_vars

(***************************************************************************)
(* Reading an argument vector and a descriptor list                         *)
(***************************************************************************)

\* the filter lists of the -vf options of an argument vector
ChainsOf(argv) ==
  { SplitAll(argv[k + 1], ",") : k \in { j \in 1..(Len(argv) - 1) : argv[j] = << "-vf" >> } }

HasTextWatermark(argv) == \E c \in ChainsOf(argv) : \E j \in 1..Len(c) : c[j] = DrawText

HasGraphWatermark(argv) ==
  \E k \in 1..(Len(argv) - 1) : argv[k] = << "-filter_complex" >> /\ argv[k + 1] = WmChain

\* the watermark has not been switched off (the CPU variant has no switch)
WatermarkOn == variant = "cpu" \/ WM_ENABLED

\* the descriptor d names the operation lit
IsOp(d, lit) ==
  LET v == Get(d, KEY_OP, StrV(<<>>)) IN v.t = "str" /\ Lower(v.s) = << lit >>

HasOp(lit) == \E k \in 1..Len(ops) : IsOp(ops[k], lit)

\* the type of a format descriptor, as the compiler reads it
TypeOf(d) == Lower(Get(d, << "type" >>, StrV(<< "mp4" >>)).s)

HasHlsFormat == \E k \in 1..Len(ops) : IsOp(ops[k], "format") /\ TypeOf(ops[k]) \in HlsNames

RecognizedOps ==
  { "format", "resize", "scale", "fps", "crop", "bitrate", "crf", "preset", "audio",
    "rotate", "grayscale", "monochrome", "thumbnail", "fast" }

\* the first chunks of the filters the operations produce
OpFilterHeads ==
  { "scale=", "fps=", "crop=", "transpose=1", "transpose=2", "rotate=", "format=gray" }

IsOpFilter(f) == f # <<>> /\ f[1] \in OpFilterHeads

\* the filters of a list of comma-joined filter strings
FiltersOf(vf) == IF vf = <<>> THEN <<>> ELSE SplitAll(Join(vf, ","), ",")

\* the extension of a path
ExtOf(path) == path[Len(path)]

(***************************************************************************)
(* C1: whatever the operation list, the argument vector process_video       *)
(* builds holds the watermark stage, the drawtext filter in the -vf chain   *)
(* or the overlay graph of -filter_complex, unless the watermark is         *)
(* switched off by configuration.                                           *)
(***************************************************************************)
C1_WatermarkPresent ==
  (final # <<>> /\ WatermarkOn) => (HasTextWatermark(final) \/ HasGraphWatermark(final))

C1_Witness ==
  /\ final # <<>>
  /\ WatermarkOn
  /\ Len(ops) = 2
  /\ HasOp("thumbnail")
  /\ HasOp("format")
  /\ HasTextWatermark(final)

(***************************************************************************)
(* C2: in the final command the watermark stage comes after every filter    *)
(* of the operation list: no operation filter follows the drawtext filter   *)
(* in the chain, and none is applied outside the overlay graph.             *)
(***************************************************************************)
C2_WatermarkLast ==
  final # <<>> =>
    /\ \A c \in ChainsOf(final) : \A j, k \in 1..Len(c) :
         (c[j] = DrawText /\ j < k) => ~IsOpFilter(c[k])
    /\ HasGraphWatermark(final) =>
         \A c \in ChainsOf(final) : \A k \in 1..Len(c) : ~IsOpFilter(c[k])

(***************************************************************************)
(* C3: the extension of the file process_video returns: that of a format    *)
(* operation when there is one; otherwise an image extension when there is  *)
(* a thumbnail operation; otherwise mp4.                                    *)
(***************************************************************************)
ImageExts == { "png", "jpg", "jpeg", "webp", "bmp" }

FormatExt(t) ==
  IF t \in HlsNames THEN "zip" ELSE choose_container_and_codecs(gpu, ENCODER, t).container

C3_ExtensionPriority ==
  pc = "returned" =>
    IF HasOp("format")
      THEN ExtOf(result.out_path)
             \in { FormatExt(TypeOf(ops[k])) : k \in { j \in 1..Len(ops) : IsOp(ops[j], "format") } }
    ELSE IF HasOp("thumbnail") THEN ExtOf(result.out_path) \in ImageExts
    ELSE ExtOf(result.out_path) = "mp4"

(***************************************************************************)
(* C4: when the list holds a format operation of type hls or m3u8, at any   *)
(* position and with any other operation, process_video takes the segmented *)
(* path only: the directory is made, the engine writes the playlist and the *)
(* segments into it, the directory is archived after the run, and the one   *)
(* deliverable is the archive, application/zip.  No job takes both paths.   *)
(***************************************************************************)
MadeHlsDir == events # <<>> /\ events[1] = "makedirs"

C4_HlsSegmentedOnly ==
  /\ (final # <<>> /\ HasHlsFormat) =>
       /\ MadeHlsDir
       /\ final[Len(final)] = PLAYLIST
       /\ \E k \in 1..(Len(final) - 1) :
            final[k] = << "-hls_segment_filename" >> /\ final[k + 1] = SEG_TMPL
       /\ pc # "run_single"
  /\ (pc = "returned" /\ HasHlsFormat) =>
       /\ events = << "makedirs", "run", "zip" >>
       /\ result = [out_path |-> ZIP_PATH, media_type |-> "application/zip"]
  /\ MadeHlsDir => (final[Len(final)] = PLAYLIST /\ result.out_path \in { <<>>, ZIP_PATH })
  /\ (final # <<>> /\ ~MadeHlsDir) =>
       (final[Len(final)] # PLAYLIST /\ result.out_path # ZIP_PATH
          /\ \A k \in 1..Len(events) : events[k] = "run")

C4_Witness ==
  /\ pc = "returned"
  /\ Len(ops) = 2
  /\ IsOp(ops[1], "format") /\ TypeOf(ops[1]) \in HlsNames
  /\ IsOp(ops[2], "format") /\ TypeOf(ops[2]) = << "webm" >>
  /\ result.media_type = "application/zip"

(***************************************************************************)
(* C5: the selector: webm gives the webm container with vp9 and opus; mp4,  *)
(* m4v, mov, no format and every unrecognized format give the mp4 container *)
(* with the same codec arguments, the default pair of the encoder mode      *)
(* (h264_vaapi in hardware mode, libx264 in software mode).                 *)
(***************************************************************************)
RecognizedFormats ==
  { << "mp4" >>, << "m4v" >>, << "mov" >>, << "webm" >>, << "mkv" >>, << "gif" >>,
    << "hls" >>, << "m3u8" >> }

HasPair(args, a, b) == \E k \in 1..(Len(args) - 1) : args[k] = << a >> /\ args[k + 1] = << b >>

C5_Selector ==
  sel # NoSel =>
    LET f == Lower(OrElse(fmt, << "mp4" >>)) IN
      /\ f = << "webm" >> =>
           /\ sel.container = "webm"
           /\ HasPair(sel.args, "-c:v", "libvpx-vp9")
           /\ HasPair(sel.args, "-c:a", "libopus")
      /\ (f \in { << "mp4" >>, << "m4v" >>, << "mov" >> } \/ f \notin RecognizedFormats) =>
           /\ sel.container = "mp4"
           /\ sel.args = choose_container_and_codecs(gpu, ENCODER, << "mp4" >>).args
           /\ HasPair(sel.args, "-c:v", IF ENCODER = VAAPI THEN "h264_vaapi" ELSE "libx264")

(***************************************************************************)
(* C6: in hardware mode the video handed to the encoder has gone through    *)
(* format=nv12,hwupload as its last step, with the text watermark (the -vf  *)
(* chain) and with the image watermark (the overlay graph) alike.           *)
(***************************************************************************)
EndsWithUpload(c) ==
  /\ Len(c) >= 2
  /\ c[Len(c) - 1] = << "format=nv12" >>
  /\ c[Len(c)] = << "hwupload" >>

C6_UploadLast ==
  (pc = "compiled" /\ gpu /\ ENCODER = VAAPI) =>
    IF ret.complex_tuple # <<>>
      THEN EndsWithUpload(SplitAll(ret.complex_tuple[2], ","))
      ELSE \E c \in ChainsOf(ret.vf_and_codecs) : EndsWithUpload(c)

(***************************************************************************)
(* C7: a rotate operation with integer degrees d appends transpose=1 for    *)
(* 90, two transposes for 180, transpose=2 for 270, nothing for 0, one or   *)
(* two transposes for every other multiple of 90, and for every other d     *)
(* one rotate filter with black fill and the angle d in radians.            *)
(***************************************************************************)
IsTranspose(f) == f \in { << "transpose=1" >>, << "transpose=2" >> }

RotateAsClaimed(d, fs) ==
  IF d = 90 THEN fs = << << "transpose=1" >> >>
  ELSE IF d = 180 THEN fs = << << "transpose=1" >>, << "transpose=1" >> >>
  ELSE IF d = 270 THEN fs = << << "transpose=2" >> >>
  ELSE IF d = 0 THEN fs = <<>>
  ELSE IF d % 90 = 0 THEN Len(fs) \in { 1, 2 } /\ \A k \in 1..Len(fs) : IsTranspose(fs[k])
  ELSE fs = << << "rotate=", ToString(RadMilli(d)), "e-3", ":", "fillcolor=black" >> >>

C7_Rotate ==
  (pc = "ops" /\ i = 2 /\ IsOp(ops[1], "rotate")
     /\ << "degrees" >> \in DOMAIN ops[1] /\ ops[1][<< "degrees" >>].t = "int") =>
    RotateAsClaimed(ops[1][<< "degrees" >>].n, FiltersOf(st.vf))

(***************************************************************************)
(* C8: a descriptor with an unrecognized operation name, at any position,   *)
(* leaves the compiler's result as it is without that descriptor: the same  *)
(* filters, codec overrides, forced extension, segmented flag and command,  *)
(* and no error.                                                            *)
(***************************************************************************)
Unrecognized(d) == \A lit \in RecognizedOps : ~IsOp(d, lit)

Without(seq, k) == SubSeq(seq, 1, k - 1) \o SubSeq(seq, k + 1, Len(seq))

\* the loop of _apply_ops_and_watermark over a whole list, stopping at a raise
RECURSIVE RunLoop(_, _, _, _)
RunLoop(g, encoder, s, descs) ==
  IF descs = <<>> \/ s.raised # "" THEN s
  ELSE RunLoop(g, encoder,
               IF g THEN ApplyOpGpu(encoder, s, Head(descs)) ELSE ApplyOpCpu(s, Head(descs)),
               Tail(descs))

LoopEnded == pc = "compiled" \/ (pc = "failed" /\ st.raised # "")

C8_UnknownIgnored ==
  LoopEnded =>
    \A k \in 1..Len(ops) :
      Unrecognized(ops[k]) =>
        st = RunLoop(gpu, ENCODER, CompileStart(BaseCmdCpu(IN_PATH)), Without(ops, k))

(***************************************************************************)
(* C9: argument values never fail a request: for raw strings with           *)
(* recognized operation names and any argument values, parse_ops_query and  *)
(* the loop of the compiler complete without raising.                       *)
(***************************************************************************)
RawName(raw) == Lower(Strip(Split1(raw, ":")[1]))

AllNamesRecognized ==
  \A k \in 1..Len(op_params) :
    op_params[k] # <<>> => \E lit \in RecognizedOps : RawName(op_params[k]) = << lit >>

C9_NoCompileError == AllNamesRecognized => st.raised = ""

(***************************************************************************)
(* C10: parse_ops_query gives one descriptor per non-empty raw string, in   *)
(* input order, and the name of each is the trimmed text before the first   *)
(* ":" of its raw string, whatever the arguments after it.                  *)
(***************************************************************************)
RECURSIVE NonEmpty(_)
NonEmpty(raws) ==
  IF raws = <<>> THEN <<>>
  ELSE IF Head(raws) = <<>> THEN NonEmpty(Tail(raws))
  ELSE << Head(raws) >> \o NonEmpty(Tail(raws))

C10_OneDescriptorPerRaw ==
  pc \notin { "request", "unit" } =>
    /\ Len(ops) = Len(NonEmpty(op_params))
    /\ \A k \in 1..Len(ops) :
         ops[k][KEY_OP] = StrV(Strip(Split1(NonEmpty(op_params)[k], ":")[1]))

(***************************************************************************)
(* C12: the final argument vector uses at most one filter representation:   *)
(* never both -vf and -filter_complex, and each of them at most once.       *)
(***************************************************************************)
Count(argv, tok) == Cardinality({ k \in 1..Len(argv) : argv[k] = tok })

C12_OneRepresentation ==
  final # <<>> => Count(final, << "-vf" >>) + Count(final, << "-filter_complex" >>) <= 1

(***************************************************************************)
(* C13: every filter expression the filter operations produce is in the     *)
(* final argument vector, in the order of the operations, with the text     *)
(* watermark and with the image watermark alike.                            *)
(***************************************************************************)
\* a is b with some elements left out
RECURSIVE IsSubseq(_, _)
IsSubseq(a, b) ==
  IF a = <<>> THEN TRUE
  ELSE IF b = <<>> THEN FALSE
  ELSE IF Head(a) = Head(b) THEN IsSubseq(Tail(a), Tail(b))
  ELSE IsSubseq(a, Tail(b))

C13_FiltersKept ==
  final # <<>> =>
    (st.vf = <<>> \/ \E c \in ChainsOf(final) : IsSubseq(FiltersOf(st.vf), c))

(***************************************************************************)
(* C14: an override set by an operation wins over the codec profile: when   *)
(* -crf, -qp, -preset or -b:v is in the vector both from an operation and   *)
(* from the profile, the last occurrence is the operation's.                *)
(***************************************************************************)
OverrideOptions == { << "-crf" >>, << "-qp" >>, << "-preset" >>, << "-b:v" >> }

Occurs(argv, tok) == \E k \in 1..Len(argv) : argv[k] = tok

LastIdx(argv, tok) ==
  CHOOSE k \in 1..Len(argv) : argv[k] = tok /\ \A j \in (k + 1)..Len(argv) : argv[j] # tok

\* where the arguments of the codec profile begin in the final vector
ProfileStart == Len(final) - Len(sel.args) - (IF final[Len(final)] = PLAYLIST THEN 3 ELSE 1) + 1

C14_OverrideWins ==
  final # <<>> =>
    \A o \in OverrideOptions :
      (Occurs(st.vcodec_args, o) /\ Occurs(sel.args, o)) => LastIdx(final, o) < ProfileStart

(***************************************************************************)
(* C15: with the image watermark graph the vector is well formed: the       *)
(* watermark image is the second input, right after the primary input and   *)
(* before every output option; the [vout] pad is mapped exactly once; the    *)
(* vector ends with the one output target and holds no stray positional.    *)
(***************************************************************************)
C15_GraphWellFormed ==
  (final # <<>> /\ HasGraphWatermark(final)) =>
    /\ \E k \in 1..(Len(final) - 3) :
         /\ final[k] = << "-i" >> /\ final[k + 1] = IN_PATH
         /\ final[k + 2] = << "-i" >> /\ final[k + 3] = WM_IMAGE
    /\ Cardinality({ k \in 1..(Len(final) - 1) :
                       final[k] = << "-map" >> /\ final[k + 1] = << "[vout]" >> }) = 1
    /\ \A k \in 2..Len(final) : final[k] = << "[vout]" >> => final[k - 1] = << "-map" >>
    /\ final[Len(final)] \in { PLAYLIST, OutPath(sel.container) }

(***************************************************************************)
(* C11: once the working directory of the job is made, every way out of the *)
(* handler has deleted it: the response, a failure of the engine, of the     *)
(* archive, of the write of the upload or of the object storage; and it is   *)
(* not deleted before the deliverable has been read for the response.        *)
(***************************************************************************)
HandlerExited == pc \in { "done", "error500", "aborted" }

C11_TmpdirReleased ==
  /\ HandlerExited => tmpdir = "deleted"
  /\ (tmpdir = "deleted" /\ err = "") => delivered

====
